---- MODULE Spec2Model ----
(***************************************************************************)
(* The products controller (getProducts, getProductById, createProduct,    *)
(* updateProduct, deleteProduct) over the Product collection declared by   *)
(* productSchema.  A request is handled in one step: validate, issue at    *)
(* most one Store call, answer.  The handler keeps nothing between          *)
(* requests; the request and its response are visible until the server      *)
(* takes the next one.                                                      *)
(***************************************************************************)
EXTENDS Integers, Sequences, FiniteSets, TLC

VARIABLES
    store,      \* the Product collection: a set of documents
    nextId,     \* number of ObjectIds generated so far
    connected,  \* whether the mongoose connection can serve a call
    req,        \* the request being answered
    resp,       \* the response sent for it
    call,       \* the Store call that request issued ("none" when it issued none)
    issued,     \* history: ids returned by a 201 Create
    pristine,   \* history: documents as returned by Create, not yet updated or deleted
    deleted     \* history: ids for which Delete answered 200

vars == <<store, nextId, connected, req, resp, call, issued, pristine, deleted>>

-----------------------------------------------------------------------------
(* Bounds of the model *)

\* at most this many ObjectIds are generated
MaxProducts == 2
\* $inc is not applied when it would take price below -PriceCap
PriceCap == 1

-----------------------------------------------------------------------------
(* JSON values as they arrive in req.body / req.query *)

Undefined == [k |-> "undefined"]
Null == [k |-> "null"]
Str(s) == [k |-> "str", v |-> s]
Num(n) == [k |-> "num", v |-> n]
Bool(b) == [k |-> "bool", v |-> b]

-----------------------------------------------------------------------------
(* Requests, responses, documents *)

\* req.params.id, whether req.body is there, and req.body or req.query
Request(o, i, p, d) == [op |-> o, id |-> i, present |-> p, data |-> d]

\* res.status(s).json(...): the status, whether the body is an array, the
\* keys of a body that is an object, its message, the documents it carries
Response(s, a, ks, m, ds) ==
    [status |-> s, isArray |-> a, keys |-> ks, message |-> m, docs |-> ds]

\* a document of the Product collection
Product(i, vs) ==
    [id |-> i, name |-> vs["name"], brand |-> vs["brand"],
     category |-> vs["category"], price |-> vs["price"],
     inStock |-> vs["inStock"]]

-----------------------------------------------------------------------------
(* Payloads *)

\* JavaScript's `!v`
Falsy(v) ==
    \/ v.k \in {"undefined", "null"}
    \/ (v.k = "str" /\ v.v = "")
    \/ (v.k = "num" /\ v.v = 0)
    \/ (v.k = "bool" /\ v.v = FALSE)

Fields == {"name", "brand", "category", "price", "inStock"}
StringFields == {"name", "brand", "category"}
\* "$inc" stands for the update operator {$inc: {price: n}}
Keys == Fields \cup {"$inc"}

NoData == [f \in Keys |-> Undefined]

-----------------------------------------------------------------------------
(* ObjectIds *)

ObjectIdLen == 24
ShortIdLen == 12
HexDigits == <<"0", "1", "2", "3", "4", "5", "6", "7", "8", "9",
               "a", "b", "c", "d", "e", "f">>
HexChars == {HexDigits[i] : i \in 1..16} \cup {"A", "B", "C", "D", "E", "F"}

\* the n-th ObjectId the driver generates: a fixed prefix and a counter
IdOf(n) ==
    [i \in 1..ObjectIdLen |->
        IF i = ObjectIdLen THEN HexDigits[(n % 16) + 1]
        ELSE IF i = ObjectIdLen - 1 THEN HexDigits[((n \div 16) % 16) + 1]
        ELSE IF i = 1 THEN "a"
        ELSE "0"]

\* mongoose.isValidObjectId on a string: 24 hex characters, or any 12 characters
isValidObjectId(id) ==
    \/ Len(id) = ShortIdLen
    \/ (Len(id) = ObjectIdLen /\ \A i \in 1..Len(id) : id[i] \in HexChars)

\* JavaScript's `!id` on a string
IdMissing(id) == Len(id) = 0

\* hex digits are read case-insensitively
LowerHex(c) ==
    CASE c = "A" -> "a" [] c = "B" -> "b" [] c = "C" -> "c"
      [] c = "D" -> "d" [] c = "E" -> "e" [] c = "F" -> "f"
      [] OTHER -> c

\* the two hex digits of a character's byte, for the characters the requests use
ByteHex(c) ==
    CASE c = "0" -> <<"3", "0">>
      [] c = "a" -> <<"6", "1">>
      [] c = "g" -> <<"6", "7">>
      [] c = "z" -> <<"7", "a">>

\* the ObjectId a string that passed isValidObjectId is cast to, as lower-case hex
CastObjectId(id) ==
    IF Len(id) = ObjectIdLen
    THEN [i \in 1..ObjectIdLen |-> LowerHex(id[i])]
    ELSE [i \in 1..(2 * Len(id)) |-> ByteHex(id[(i + 1) \div 2])[2 - (i % 2)]]

-----------------------------------------------------------------------------
(* productSchema: casting and validation *)

Digits == <<"0", "1", "2", "3", "4", "5", "6", "7", "8", "9">>
NumToStr(n) == IF n < 0 THEN "-" \o Digits[(-n) + 1] ELSE Digits[n + 1]
Numerals == -9..9

CastOk(v) == [ok |-> TRUE, val |-> v]
CastError == [ok |-> FALSE, val |-> Undefined]

\* SchemaString cast
CastString(v) ==
    CASE v.k = "str" -> CastOk(v)
      [] v.k = "num" -> CastOk(Str(NumToStr(v.v)))
      [] v.k = "bool" -> CastOk(Str(IF v.v THEN "true" ELSE "false"))
      [] OTHER -> CastOk(v)

\* SchemaNumber cast
CastNumber(v) ==
    CASE v.k = "num" -> CastOk(v)
      [] v.k = "bool" -> CastOk(Num(IF v.v THEN 1 ELSE 0))
      [] v.k = "str" ->
            IF v.v = "" THEN CastOk(Null)
            ELSE IF \E n \in Numerals : NumToStr(n) = v.v
                 THEN CastOk(Num(CHOOSE n \in Numerals : NumToStr(n) = v.v))
                 ELSE CastError
      [] OTHER -> CastOk(v)

\* SchemaBoolean cast
CastBoolean(v) ==
    CASE v.k = "bool" -> CastOk(v)
      [] v.k = "str" ->
            IF v.v \in {"true", "1", "yes"} THEN CastOk(Bool(TRUE))
            ELSE IF v.v \in {"false", "0", "no"} THEN CastOk(Bool(FALSE))
            ELSE CastError
      [] v.k = "num" ->
            IF v.v = 1 THEN CastOk(Bool(TRUE))
            ELSE IF v.v = 0 THEN CastOk(Bool(FALSE))
            ELSE CastError
      [] OTHER -> CastOk(v)

Cast(f, v) ==
    IF f \in StringFields THEN CastString(v)
    ELSE IF f = "price" THEN CastNumber(v)
    ELSE CastBoolean(v)

\* `required: [true, ...]` on name, brand, category, price
Required(f) == f \in StringFields \cup {"price"}
RequiredOk(f, v) ==
    IF f \in StringFields THEN v.k = "str" /\ v.v # ""
    ELSE v.k = "num"

MinPrice == 0

\* mutant: the schema declares no minimum for price
MinOk_Off(f, v) == TRUE

\* `min: [0, "Price cannot be negative"]`
MinOk(f, v) == (f = "price" /\ v.k = "num") => v.v >= MinPrice

\* the validators of one path, run on a cast value
PathValid(f, v) ==
    /\ Required(f) => RequiredOk(f, v)
    /\ MinOk(f, v)

\* mutant: the schema declares no default for inStock
WithDefault_None(f, v) == v

\* `default: true` on inStock
WithDefault(f, v) ==
    IF f = "inStock" /\ v.k = "undefined" THEN Bool(TRUE) ELSE v

-----------------------------------------------------------------------------
(* The Product model's calls (mongoose) *)

Supplied(data) == {f \in Fields : data[f].k # "undefined"}

\* mutant: a document matches when any one filter matches
ProductFind_Any(filter) ==
    LET S == Supplied(filter)
        c == [f \in Fields |-> Cast(f, filter[f])]
    IN  IF ~connected \/ \E f \in S : ~c[f].ok
        THEN [err |-> TRUE, found |-> {}]
        ELSE [err |-> FALSE,
              found |-> {d \in store : \E f \in S : d[f] = c[f].val}]

\* Product.find(filter)
ProductFind(filter) ==
    LET S == Supplied(filter)
        c == [f \in Fields |-> Cast(f, filter[f])]
    IN  IF ~connected \/ \E f \in S : ~c[f].ok
        THEN [err |-> TRUE, found |-> {}]
        ELSE [err |-> FALSE,
              found |-> {d \in store : \A f \in S : d[f] = c[f].val}]

\* Product.findById(id)
ProductFindById(id) ==
    IF ~connected
    THEN [err |-> TRUE, found |-> {}]
    ELSE [err |-> FALSE, found |-> {d \in store : d.id = CastObjectId(id)}]

\* Product.create({name, brand, category, price, inStock})
ProductCreate(fields) ==
    LET c == [f \in Fields |-> Cast(f, fields[f])]
        vs == [f \in Fields |-> WithDefault(f, c[f].val)]
        doc == Product(IdOf(nextId), vs)
    IN  IF \/ ~connected
           \/ \E f \in Fields : ~c[f].ok
           \/ \E f \in Fields : ~PathValid(f, vs[f])
        THEN [store |-> store, nextId |-> nextId, err |-> TRUE, found |-> {}]
        ELSE [store |-> store \cup {doc}, nextId |-> nextId + 1,
              err |-> FALSE, found |-> {doc}]

\* mutant: the body replaces the document instead of patching it
Patched_Replaces(d, S, c, inc) ==
    Product(d.id, [f \in Fields |-> IF f \in S THEN c[f].val ELSE Undefined])

\* the document after $set of the supplied fields and $inc of price
Patched(d, S, c, inc) ==
    LET set == [f \in Fields |-> IF f \in S THEN c[f].val ELSE d[f]]
        vs == [set EXCEPT !["price"] =
                    IF inc.k = "num" /\ @.k = "num" THEN Num(@.v + inc.v) ELSE @]
    IN  Product(d.id, vs)

\* mutant: the write is applied before the validators reject the body
ProductFindByIdAndUpdate_WritesFirst(id, data) ==
    LET S == Supplied(data)
        c == [f \in Fields |-> Cast(f, data[f])]
        inc == CastNumber(data["$inc"])
        hit == {d \in store : d.id = CastObjectId(id)}
        new == {Patched(d, S, c, inc.val) : d \in hit}
    IN  IF ~connected \/ (\E f \in S : ~c[f].ok) \/ ~inc.ok
        THEN [store |-> store, err |-> TRUE, found |-> {}]
        ELSE IF \/ \E f \in S : ~PathValid(f, c[f].val)
                \/ (inc.val.k # "undefined" /\ "price" \in S)
        THEN [store |-> (store \ hit) \cup new, err |-> TRUE, found |-> {}]
        ELSE [store |-> (store \ hit) \cup new, err |-> FALSE, found |-> new]

\* Product.findByIdAndUpdate(id, req.body, {runValidators: true, new: true})
ProductFindByIdAndUpdate(id, data) ==
    LET S == Supplied(data)
        c == [f \in Fields |-> Cast(f, data[f])]
        inc == CastNumber(data["$inc"])
        hit == {d \in store : d.id = CastObjectId(id)}
        new == {Patched(d, S, c, inc.val) : d \in hit}
    IN  IF \/ ~connected
           \/ \E f \in S : ~c[f].ok
           \/ ~inc.ok
           \/ \E f \in S : ~PathValid(f, c[f].val)
           \/ (inc.val.k # "undefined" /\ "price" \in S)
        THEN [store |-> store, err |-> TRUE, found |-> {}]
        ELSE [store |-> (store \ hit) \cup new, err |-> FALSE, found |-> new]

\* mutant: the document is found and returned but not removed
ProductFindByIdAndDelete_Keeps(id) ==
    LET hit == {d \in store : d.id = CastObjectId(id)}
    IN  IF ~connected
        THEN [store |-> store, err |-> TRUE, found |-> {}]
        ELSE [store |-> store, err |-> FALSE, found |-> hit]

\* Product.findByIdAndDelete(id)
ProductFindByIdAndDelete(id) ==
    LET hit == {d \in store : d.id = CastObjectId(id)}
    IN  IF ~connected
        THEN [store |-> store, err |-> TRUE, found |-> {}]
        ELSE [store |-> store \ hit, err |-> FALSE, found |-> hit]

-----------------------------------------------------------------------------
(* Responses *)

DocKeys == Fields \cup {"_id", "__v"}

\* res.status(s).json({message: m, ...})
Message(s, m, more, docs) == Response(s, FALSE, {"message"} \cup more, m, docs)
\* mutant: the catch block answers with the error text alone
ServerError_Bare == Response(500, FALSE, {"error"}, "", {})

\* res.status(500).json({message: "Server error", error: String(err)})
ServerError == Message(500, "Server error", {"error"}, {})
\* res.status(200).json(products)
ArrayOf(docs) == Response(200, TRUE, {}, "", docs)
\* res.status(200).json(product)
Document(docs) == Response(200, FALSE, DocKeys, "", docs)

-----------------------------------------------------------------------------
(* Requests the model issues *)

Upper(id) == [i \in 1..Len(id) |-> IF id[i] = "a" THEN "A" ELSE id[i]]

\* ids that pass the format check: the ones the driver generates, one of
\* them in upper case, and a 12-character string
WellFormedIds ==
    {IdOf(n) : n \in 0..(MaxProducts - 1)}
        \cup {Upper(IdOf(0))}
        \cup {[i \in 1..ShortIdLen |-> "z"]}
\* empty, too short, not hex, too long
MalformedIds ==
    { <<>>,
      <<"a">>,
      [i \in 1..ObjectIdLen |-> IF i = 2 THEN "g" ELSE "0"],
      [i \in 1..(ObjectIdLen + 1) |-> "0"] }
ReqIds == WellFormedIds \cup MalformedIds

Data(name, brand, category, price, inStock, inc) ==
    [f \in Keys |->
        CASE f = "name" -> name [] f = "brand" -> brand
          [] f = "category" -> category [] f = "price" -> price
          [] f = "inStock" -> inStock [] OTHER -> inc]

\* a complete body, and the bodies that differ from it in one field
GoodBody == Data(Str("Pen"), Str("Acme"), Str("Office"), Num(1), Undefined, Undefined)
With(data, f, val) == [data EXCEPT ![f] = val]

CreateBodies ==
    {With(GoodBody, "price", Num(0)),
     With(GoodBody, "inStock", Bool(FALSE)),
     GoodBody}
      \cup {With(GoodBody, f, val) : f \in StringFields, val \in {Undefined, Str("")}}
      \cup {With(GoodBody, "name", Null)}
      \cup {With(GoodBody, "price", val) :
                val \in {Undefined, Null, Num(-1), Str("abc")}}
      \cup {With(With(GoodBody, "name", Undefined), "price", Num(0))}

\* partial bodies: no field, one field, two fields, and $inc of price
UpdateBodies ==
    {NoData}
      \cup {With(NoData, "name", val) : val \in {Str("Cap"), Str("")}}
      \cup {With(NoData, "brand", Null)}
      \cup {With(NoData, "price", val) : val \in {Num(0), Num(-1)}}
      \cup {With(NoData, "$inc", Num(-1))}
      \cup {With(With(NoData, "name", Str("Pen")), "price", Num(1))}
      \cup {With(With(NoData, "price", Num(0)), "$inc", Num(-1))}

\* req.query: every value is a string
Queries ==
    {Data(n, Undefined, Undefined, p, Undefined, Undefined) :
        n \in {Undefined, Str("Pen")},
        p \in {Undefined, Str("0"), Str("abc")}}
      \cup {With(NoData, "inStock", Str("true")),
            Data(Str("Cap"), Undefined, Undefined, Str("1"), Str("true"), Undefined)}

PricesWithin(docs) ==
    \A d \in docs :
        d.price.k = "num" => d.price.v >= -PriceCap

-----------------------------------------------------------------------------
(* The handlers *)

NoRequest == Request("none", <<>>, FALSE, NoData)
NoResponse == Response(0, FALSE, {}, "", {})

Init ==
    /\ store = {}
    /\ nextId = 0
    /\ connected = TRUE
    /\ req = NoRequest
    /\ resp = NoResponse
    /\ call = "none"
    /\ issued = {}
    /\ pristine = {}
    /\ deleted = {}

\* what getProducts answers
getProductsResult(query) ==
    LET r == ProductFind(query)
    IN  IF r.err THEN ServerError
        ELSE IF r.found = {} THEN Message(404, "No products found", {}, {})
        ELSE ArrayOf(r.found)

getProducts ==
    /\ req = NoRequest
    /\ \E query \in Queries :
        /\ req' = Request("List", <<>>, FALSE, query)
        /\ resp' = getProductsResult(query)
        /\ call' = "find"
        /\ UNCHANGED <<store, nextId, connected, issued, pristine, deleted>>

\* what getProductById answers, and the call it issues
getProductByIdResult(id) ==
    IF ~isValidObjectId(id)
    THEN [resp |-> Message(400, "Invalid product ID", {}, {}), call |-> "none"]
    ELSE LET r == ProductFindById(id)
         IN  [resp |-> IF r.err THEN ServerError
                       ELSE IF r.found = {}
                            THEN Message(404, "Product not found", {}, {})
                            ELSE Document(r.found),
              call |-> "findById"]

getProductById ==
    /\ req = NoRequest
    /\ \E id \in ReqIds :
        \E o \in {getProductByIdResult(id)} :
            /\ req' = Request("GetByOne", id, FALSE, NoData)
            /\ resp' = o.resp
            /\ call' = o.call
            /\ UNCHANGED <<store, nextId, connected, issued, pristine, deleted>>

\* mutant: price is tested like the other fields, with `!price`
MissingRequired_Falsy(data) ==
    \/ Falsy(data["name"])
    \/ Falsy(data["brand"])
    \/ Falsy(data["category"])
    \/ Falsy(data["price"])

\* the check createProduct makes before calling the Store
MissingRequired(data) ==
    \/ Falsy(data["name"])
    \/ Falsy(data["brand"])
    \/ Falsy(data["category"])
    \/ data["price"].k = "undefined"

createProductResult(present, data) ==
    IF ~present
    THEN [store |-> store, nextId |-> nextId,
          resp |-> Message(400, "Product data is required", {}, {}),
          call |-> "none"]
    ELSE IF MissingRequired(data)
    THEN [store |-> store, nextId |-> nextId,
          resp |-> Message(400, "Name, brand, category, and price are required",
                           {}, {}),
          call |-> "none"]
    ELSE LET r == ProductCreate([f \in Fields |-> data[f]])
         IN  [store |-> r.store, nextId |-> r.nextId,
              resp |-> IF r.err THEN ServerError
                       ELSE Message(201, "Product created successfully",
                                    {"product"}, r.found),
              call |-> "create"]

createProduct ==
    /\ req = NoRequest
    /\ \E present \in BOOLEAN :
       \E data \in (IF present THEN CreateBodies ELSE {NoData}) :
       \E o \in {createProductResult(present, data)} :
            /\ o.nextId <= MaxProducts
            /\ req' = Request("Create", <<>>, present, data)
            /\ resp' = o.resp
            /\ call' = o.call
            /\ store' = o.store
            /\ nextId' = o.nextId
            /\ issued' = issued \cup {d.id : d \in o.resp.docs}
            /\ pristine' = pristine \cup o.resp.docs
            /\ UNCHANGED <<connected, deleted>>

updateProductResult(id, data) ==
    IF IdMissing(id)
    THEN [store |-> store,
          resp |-> Message(400, "Id Parameter Missing", {}, {}),
          call |-> "none"]
    ELSE IF ~isValidObjectId(id)
    THEN [store |-> store,
          resp |-> Message(400, "Invalid product ID", {}, {}),
          call |-> "none"]
    ELSE LET r == ProductFindByIdAndUpdate(id, data)
         IN  [store |-> r.store,
              resp |-> IF r.err THEN ServerError
                       ELSE IF r.found = {}
                            THEN Message(404, "Product not found", {}, {})
                            ELSE Message(200, "Product updated successfully",
                                         {"product"}, r.found),
              call |-> "findByIdAndUpdate"]

updateProduct ==
    /\ req = NoRequest
    /\ \E id \in ReqIds :
       \E data \in (IF isValidObjectId(id) THEN UpdateBodies ELSE {GoodBody}) :
       \E o \in {updateProductResult(id, data)} :
            /\ PricesWithin(o.store)
            /\ req' = Request("Update", id, TRUE, data)
            /\ resp' = o.resp
            /\ call' = o.call
            /\ store' = o.store
            /\ pristine' = IF o.resp.status = 200
                            THEN {d \in pristine : d.id # CastObjectId(id)}
                            ELSE pristine
            /\ UNCHANGED <<nextId, connected, issued, deleted>>

\* mutant: the id goes to the Store without the format check
deleteProductResult_Unchecked(id) ==
    IF IdMissing(id)
    THEN [store |-> store,
          resp |-> Message(400, "Id Parameter Missing", {}, {}),
          call |-> "none"]
    ELSE LET r == ProductFindByIdAndDelete(id)
         IN  [store |-> r.store,
              resp |-> IF r.err THEN ServerError
                       ELSE IF r.found = {}
                            THEN Message(404, "Product not found", {}, {})
                            ELSE Message(200, "Product deleted successfully",
                                         {}, {}),
              call |-> "findByIdAndDelete"]

deleteProductResult(id) ==
    IF IdMissing(id)
    THEN [store |-> store,
          resp |-> Message(400, "Id Parameter Missing", {}, {}),
          call |-> "none"]
    ELSE IF ~isValidObjectId(id)
    THEN [store |-> store,
          resp |-> Message(400, "Invalid product ID", {}, {}),
          call |-> "none"]
    ELSE LET r == ProductFindByIdAndDelete(id)
         IN  [store |-> r.store,
              resp |-> IF r.err THEN ServerError
                       ELSE IF r.found = {}
                            THEN Message(404, "Product not found", {}, {})
                            ELSE Message(200, "Product deleted successfully",
                                         {}, {}),
              call |-> "findByIdAndDelete"]

deleteProduct ==
    /\ req = NoRequest
    /\ \E id \in ReqIds :
       \E o \in {deleteProductResult(id)} :
            /\ req' = Request("Delete", id, FALSE, NoData)
            /\ resp' = o.resp
            /\ call' = o.call
            /\ store' = o.store
            /\ pristine' = IF o.resp.status = 200
                            THEN {d \in pristine : d.id # CastObjectId(id)}
                            ELSE pristine
            /\ deleted' = IF o.resp.status = 200
                           THEN deleted \cup {CastObjectId(id)}
                           ELSE deleted
            /\ UNCHANGED <<nextId, connected, issued>>

\* the response is out and the router takes the next request
NextRequest ==
    /\ req # NoRequest
    /\ req' = NoRequest
    /\ resp' = NoResponse
    /\ call' = "none"
    /\ UNCHANGED <<store, nextId, connected, issued, pristine, deleted>>

\* mongoose.connect(dbUri) fails or the connection drops: the server keeps running
ConnectionLost ==
    /\ req = NoRequest
    /\ connected
    /\ connected' = FALSE
    /\ UNCHANGED <<store, nextId, req, resp, call, issued, pristine, deleted>>

ConnectionRestored ==
    /\ req = NoRequest
    /\ ~connected
    /\ connected' = TRUE
    /\ UNCHANGED <<store, nextId, req, resp, call, issued, pristine, deleted>>

Next ==
    \/ getProducts
    \/ getProductById
    \/ createProduct
    \/ updateProduct
    \/ deleteProduct
    \/ NextRequest

NextOutage ==
    \/ Next
    \/ ConnectionLost
    \/ ConnectionRestored

\* the Store serves every call
Spec == Init /\ [][Next]_vars

\* the Store may be unreachable for any stretch of time
SpecOutage == Init /\ [][NextOutage]_vars

-----------------------------------------------------------------------------
(* Vocabulary of the properties *)

NonEmptyText(v) == v.k = "str" /\ v.v # ""
EmptyOrAbsent(v) == v.k = "undefined" \/ (v.k = "str" /\ v.v = "")

\* a Create payload the data model accepts
ValidPayload(r) ==
    /\ r.present
    /\ \A f \in StringFields : NonEmptyText(r.data[f])
    /\ r.data["price"].k = "num" /\ r.data["price"].v >= 0
    /\ r.data["inStock"].k \in {"undefined", "bool"}

\* the Product a valid Create payload describes, apart from its id
Echoes(d, data) ==
    /\ \A f \in StringFields \cup {"price"} : d[f] = data[f]
    /\ d["inStock"] = (IF data["inStock"].k = "undefined" THEN Bool(TRUE)
                       ELSE data["inStock"])

StatusCodes == {200, 201, 400, 404, 500}

\* a query-string value and a stored value denote the same value
SameValue(stored, text) ==
    CASE stored.k = "str" -> stored.v = text
      [] stored.k = "num" ->
            \E n \in Numerals : n = stored.v /\ NumToStr(n) = text
      [] stored.k = "bool" -> text = (IF stored.v THEN "true" ELSE "false")
      [] OTHER -> FALSE

\* the stored Products a List request's filters select
Selected(r) ==
    {d \in store : \A f \in Supplied(r.data) : SameValue(d[f], r.data[f].v)}

\* a price filter that is not the text of a number
Uncastable(r) ==
    /\ "price" \in Supplied(r.data)
    /\ ~\E n \in Numerals : NumToStr(n) = r.data["price"].v

-----------------------------------------------------------------------------
(* C1: a valid Create answers 201 with a Product that has the input's       *)
(* fields (inStock true when absent) and a non-empty id no earlier Create   *)
(* returned; a GetByOne with the id of a Product that was created and not   *)
(* updated or deleted since answers 200 with that same Product.             *)
C1_Step ==
    /\ (req'.op = "Create" /\ ValidPayload(req')) =>
            /\ resp'.status = 201
            /\ \E d \in resp'.docs :
                    /\ resp'.docs = {d}
                    /\ Echoes(d, req'.data)
                    /\ Len(d.id) > 0
                    /\ d.id \notin issued
                    /\ \A e \in store : e.id # d.id
    /\ (req'.op = "GetByOne" /\ \E d \in pristine' : d.id = req'.id) =>
            /\ resp'.status = 200
            /\ resp'.docs = {d \in pristine' : d.id = req'.id}
C1_CreateThenGet == [][C1_Step]_vars

C1_Witness ==
    /\ req.op = "GetByOne"
    /\ resp.status = 200
    /\ resp.docs # {}
    /\ resp.docs \subseteq pristine
    /\ Cardinality(issued) = MaxProducts
    /\ \E d \in resp.docs : d.id = IdOf(MaxProducts - 1)

(* C2: every persisted Product has non-empty name, brand and category and  *)
(* price >= 0, and no two persisted Products share an id.                   *)
C2_PersistedValid ==
    /\ \A d \in store :
            /\ \A f \in StringFields : NonEmptyText(d[f])
            /\ d.price.k = "num" /\ d.price.v >= 0
    /\ \A d, e \in store : d.id = e.id => d = e

(* C3: once Delete has answered 200 for an id, a GetByOne on that id       *)
(* answers 404 "Product not found".                                         *)
C3_DeletedStaysGone ==
    (/\ req.op = "GetByOne"
     /\ isValidObjectId(req.id)
     /\ CastObjectId(req.id) \in deleted) =>
        /\ resp.status = 404
        /\ resp.message = "Product not found"

C3_Witness ==
    /\ req.op = "GetByOne"
    /\ req.id = IdOf(0)
    /\ req.id \in deleted
    /\ resp.status = 404
    /\ Cardinality(issued) = MaxProducts
    /\ store # {}
    /\ store \cap pristine = {}

(* C4: an Update that answers 200 gives every field supplied in the body   *)
(* its supplied value, keeps the id and every field the body does not name, *)
(* leaves every other Product unchanged, and returns the Product as it is   *)
(* after the update.                                                        *)
C4_Step ==
    (req'.op = "Update" /\ resp'.status = 200) =>
        \E old \in store : \E new \in store' :
            /\ old.id = CastObjectId(req'.id)
            /\ new.id = old.id
            /\ \A f \in Supplied(req'.data) : new[f] = req'.data[f]
            /\ \A f \in Fields \ Supplied(req'.data) :
                    (f = "price" /\ req'.data["$inc"].k # "undefined")
                        \/ new[f] = old[f]
            /\ store' \ {new} = store \ {old}
            /\ resp'.docs = {new}
C4_UpdateFrame == [][C4_Step]_vars

C4_Witness ==
    /\ req.op = "Update"
    /\ resp.status = 200
    /\ Supplied(req.data) = {"name"}
    /\ Cardinality(store) = 2
    /\ \E d \in resp.docs :
            /\ d.name = Str("Cap")
            /\ d.price = Num(0)
            /\ d.inStock = Bool(FALSE)
            /\ d \notin pristine

(* C5: GetByOne, Update and Delete with an id that fails the format check  *)
(* answer 400, issue no Store call and leave the Store unchanged.           *)
C5_Step ==
    (req'.op \in {"GetByOne", "Update", "Delete"} /\ ~isValidObjectId(req'.id)) =>
        /\ resp'.status = 400
        /\ call' = "none"
        /\ store' = store
C5_MalformedId == [][C5_Step]_vars

C5_Witness ==
    /\ req.op = "Delete"
    /\ Len(req.id) = ObjectIdLen
    /\ ~isValidObjectId(req.id)
    /\ resp.status = 400
    /\ store # {}

(* C6: a Create whose body is absent, or whose name, brand or category is  *)
(* empty or absent, or whose price is absent, answers 400 without a Store   *)
(* call; a body with price 0 and the other required fields is not answered  *)
(* 400.                                                                     *)
C6_RequiredFields ==
    /\ (/\ req.op = "Create"
        /\ \/ ~req.present
           \/ \E f \in StringFields : EmptyOrAbsent(req.data[f])
           \/ req.data["price"].k = "undefined") =>
            (resp.status = 400 /\ call = "none")
    /\ (/\ req.op = "Create"
        /\ req.present
        /\ \A f \in StringFields : NonEmptyText(req.data[f])
        /\ req.data["price"] = Num(0)) =>
            resp.status # 400

C6_Witness ==
    /\ req.op = "Create"
    /\ req.present
    /\ req.data["price"].k = "undefined"
    /\ \A f \in StringFields : NonEmptyText(req.data[f])
    /\ resp.status = 400
    /\ call = "none"

(* C7: a Create with price < 0 never answers 201 and adds no Product; a    *)
(* Create with price 0 and valid name, brand and category answers 201 and   *)
(* the Product is persisted with price 0.                                   *)
C7_Step ==
    /\ (/\ req'.op = "Create"
        /\ req'.data["price"].k = "num"
        /\ req'.data["price"].v < 0) =>
            (resp'.status # 201 /\ store' = store)
    /\ (/\ req'.op = "Create"
        /\ ValidPayload(req')
        /\ req'.data["price"] = Num(0)) =>
            /\ resp'.status = 201
            /\ \E d \in store' \ store :
                    d.price = Num(0) /\ resp'.docs = {d}
C7_PriceBounds == [][C7_Step]_vars

C7_Witness ==
    /\ req.op = "Create"
    /\ req.data["price"] = Num(-1)
    /\ \A f \in StringFields : NonEmptyText(req.data[f])
    /\ resp.status = 500
    /\ call = "create"
    /\ \E d \in store : d.price = Num(0)

(* C8 as stated: List answers 200 with exactly the stored Products whose   *)
(* fields equal every supplied filter value, and 404 "No products found"    *)
(* when there is none.                                                      *)
C8_AsStated ==
    (req.op = "List") =>
        IF Selected(req) = {}
        THEN resp.status = 404 /\ resp.message = "No products found"
        ELSE resp.status = 200 /\ resp.docs = Selected(req)

(* C8 amended: the same, except that a price filter that is not a number   *)
(* makes the Store call fail and List answer 500.                           *)
C8_ListSelects ==
    (req.op = "List") =>
        IF Uncastable(req)
        THEN resp.status = 500
        ELSE IF Selected(req) = {}
        THEN resp.status = 404 /\ resp.message = "No products found"
        ELSE resp.status = 200 /\ resp.isArray /\ resp.docs = Selected(req)

C8_Witness ==
    /\ req.op = "List"
    /\ Supplied(req.data) = {"name", "price"}
    /\ resp.status = 200
    /\ Cardinality(resp.docs) = 1
    /\ Cardinality(store) = 2
    /\ \E d \in store : d.name = req.data["name"] /\ d \notin resp.docs

(* C9 as stated: every response is a JSON object with a message, and its   *)
(* status is one of 200, 201, 400, 404, 500.                                *)
C9_AsStated ==
    (req.op # "none") =>
        /\ resp.status \in StatusCodes
        /\ ~resp.isArray
        /\ "message" \in resp.keys

(* C9 amended: every status is one of 200, 201, 400, 404, 500; every       *)
(* response other than the 200 of List (the array of Products) and the 200  *)
(* of GetByOne (the Product itself) is a JSON object with a message; a      *)
(* request whose Store call fails because the Store is unreachable is       *)
(* answered 500.                                                            *)
C9_Responses ==
    (req.op # "none") =>
        /\ resp.status \in StatusCodes
        /\ IF req.op = "List" /\ resp.status = 200
           THEN resp.isArray /\ resp.docs # {}
           ELSE IF req.op = "GetByOne" /\ resp.status = 200
           THEN ~resp.isArray /\ "message" \notin resp.keys
           ELSE /\ ~resp.isArray
                /\ "message" \in resp.keys
                /\ resp.message # ""
        /\ (~connected /\ call # "none") => resp.status = 500

C9_Witness ==
    /\ ~connected
    /\ req.op = "Update"
    /\ call = "findByIdAndUpdate"
    /\ resp.status = 500
    /\ "message" \in resp.keys
    /\ \E d \in store : d.id = req.id

(* C10: the Store changes only on a Create answered 201, an Update         *)
(* answered 200 or a Delete answered 200; List and GetByOne, and every      *)
(* request answered 400, 404 or 500, leave every persisted Product as it    *)
(* was.                                                                     *)
C10_Step ==
    /\ (store' # store) =>
            \/ (req'.op = "Create" /\ resp'.status = 201)
            \/ (req'.op = "Update" /\ resp'.status = 200)
            \/ (req'.op = "Delete" /\ resp'.status = 200)
    /\ (resp'.status \in {400, 404, 500}) => store' = store
    /\ (req'.op \in {"List", "GetByOne"}) => store' = store
C10_StoreFrame == [][C10_Step]_vars

C10_Witness ==
    /\ connected
    /\ req.op = "Update"
    /\ req.data["name"] = Str("")
    /\ call = "findByIdAndUpdate"
    /\ resp.status = 500
    /\ \E d \in store : d.id = req.id

====
